---- MODULE Spec2Model ----
(***************************************************************************)
(* Model of referrals_app.py: the master ledger kept in                    *)
(* data/referrals_master.csv, the handlers that load, append to, delete    *)
(* from and clear it, and the month normalisation used by append.          *)
(*                                                                         *)
(* Text is a sequence of one-character strings.  A missing value (pandas   *)
(* NaN / None / pd.NA) is the one-element sequence NA, which no text       *)
(* contains.                                                               *)
(***************************************************************************)
EXTENDS Integers, Sequences, FiniteSets, TLC

\* ------------------------------------------------------------------ bounds

\* Most rows the store may hold before another upload is accepted by the model.
MaxRows == 3
\* Most rows of one uploaded file.
MaxUpload == 2
\* Last second of the wall clock that the model lets an append read.
MaxClock == 1

\* ------------------------------------------------------------------ text

NA == <<"<NA>">>

IsNA(v) == v = NA

Digits == <<"0", "1", "2", "3", "4", "5", "6", "7", "8", "9">>

UpperCase == <<"A", "B", "C", "D", "E", "F", "G", "H", "I", "J", "K", "L", "M",
               "N", "O", "P", "Q", "R", "S", "T", "U", "V", "W", "X", "Y", "Z">>

LowerCase == <<"a", "b", "c", "d", "e", "f", "g", "h", "i", "j", "k", "l", "m",
               "n", "o", "p", "q", "r", "s", "t", "u", "v", "w", "x", "y", "z">>

IsDigit(c) == c \in {"0", "1", "2", "3", "4", "5", "6", "7", "8", "9"}

DigitVal(c) == (CHOOSE i \in 1..10 : Digits[i] = c) - 1

IsSpace(c) == c = " "

\* str.lower() of one character
LowerChar(c) ==
    IF \E i \in 1..26 : UpperCase[i] = c
    THEN LowerCase[CHOOSE i \in 1..26 : UpperCase[i] = c]
    ELSE c

Lower(s) == [i \in 1..Len(s) |-> LowerChar(s[i])]

AllDigits(s) == \A i \in 1..Len(s) : IsDigit(s[i])

RECURSIVE IntOf(_)
\* int() of a short run of decimal digits
IntOf(s) == IF s = <<>> THEN 0 ELSE 10 * IntOf(SubSeq(s, 1, Len(s) - 1)) + DigitVal(s[Len(s)])

RECURSIVE LStrip(_)
LStrip(s) == IF s # <<>> /\ IsSpace(Head(s)) THEN LStrip(Tail(s)) ELSE s

RECURSIVE RStrip(_)
RStrip(s) == IF s # <<>> /\ IsSpace(s[Len(s)]) THEN RStrip(SubSeq(s, 1, Len(s) - 1)) ELSE s

\* str.strip()
Strip(s) == RStrip(LStrip(s))

\* str(v) as Series.astype(str) applies it: a missing value becomes the text "nan"
AsStr(v) == IF IsNA(v) THEN <<"n", "a", "n">> ELSE v

\* Series.str.slice(0, 7)
Slice7(s) == SubSeq(s, 1, IF Len(s) < 7 THEN Len(s) ELSE 7)

\* s contains sub as a contiguous run (str.contains with a literal pattern)
Contains(s, sub) ==
    \E i \in 1..(Len(s) - Len(sub) + 1) : SubSeq(s, i, i + Len(sub) - 1) = sub

\* f"{n:02d}" and "%m", "%d", "%H", "%M", "%S" of strftime
Fmt2(n) == <<Digits[(n \div 10) + 1], Digits[(n % 10) + 1]>>

\* "%Y" of strftime for a four-digit year
Fmt4(n) == <<Digits[(n \div 1000) + 1], Digits[((n \div 100) % 10) + 1],
             Digits[((n \div 10) % 10) + 1], Digits[(n % 10) + 1]>>

\* strftime("%Y-%m")
FmtYm(y, m) == Fmt4(y) \o <<"-">> \o Fmt2(m)

\* ------------------------------------------------------------ normalize_month

\* The pieces of s between occurrences of the separator character
RECURSIVE SplitOn(_, _)
SplitOn(s, sep) ==
    IF \A i \in 1..Len(s) : s[i] # sep
    THEN <<s>>
    ELSE LET k == CHOOSE i \in 1..Len(s) : s[i] = sep /\ \A j \in 1..(i - 1) : s[j] # sep
         IN  <<SubSeq(s, 1, k - 1)>> \o SplitOn(SubSeq(s, k + 1, Len(s)), sep)

IsLeap(y) == (y % 4 = 0 /\ y % 100 # 0) \/ y % 400 = 0

DaysInMonth(y, m) ==
    IF m = 2 THEN (IF IsLeap(y) THEN 29 ELSE 28)
    ELSE IF m \in {4, 6, 9, 11} THEN 30 ELSE 31

\* strptime's %Y: exactly four digits
MatchY(s) == Len(s) = 4 /\ AllDigits(s)

\* strptime's %m: 1[0-2]|0[1-9]|[1-9]
MatchM(s) == Len(s) \in {1, 2} /\ AllDigits(s) /\ IntOf(s) \in 1..12

\* strptime's %d: 3[0-1]|[1-2]\d|0[1-9]|[1-9]
MatchD(s) == Len(s) \in {1, 2} /\ AllDigits(s) /\ IntOf(s) \in 1..31

MonthAbbr == << <<"j","a","n">>, <<"f","e","b">>, <<"m","a","r">>, <<"a","p","r">>,
                <<"m","a","y">>, <<"j","u","n">>, <<"j","u","l">>, <<"a","u","g">>,
                <<"s","e","p">>, <<"o","c","t">>, <<"n","o","v">>, <<"d","e","c">> >>

MonthFull == << <<"j","a","n","u","a","r","y">>, <<"f","e","b","r","u","a","r","y">>,
                <<"m","a","r","c","h">>, <<"a","p","r","i","l">>, <<"m","a","y">>,
                <<"j","u","n","e">>, <<"j","u","l","y">>, <<"a","u","g","u","s","t">>,
                <<"s","e","p","t","e","m","b","e","r">>, <<"o","c","t","o","b","e","r">>,
                <<"n","o","v","e","m","b","e","r">>, <<"d","e","c","e","m","b","e","r">> >>

\* The result of one strptime attempt: <<year, month>>, or <<>> for ValueError
NoMatch == <<>>

\* "%Y-%m" and "%Y/%m"
TryYearMonth(s, sep) ==
    LET p == SplitOn(s, sep)
    IN  IF Len(p) = 2 /\ MatchY(p[1]) /\ MatchM(p[2])
        THEN <<IntOf(p[1]), IntOf(p[2])>> ELSE NoMatch

\* "%Y-%m-%d"
TryYearMonthDay(s) ==
    LET p == SplitOn(s, "-")
    IN  IF /\ Len(p) = 3 /\ MatchY(p[1]) /\ MatchM(p[2]) /\ MatchD(p[3])
           /\ IntOf(p[3]) <= DaysInMonth(IntOf(p[1]), IntOf(p[2]))
        THEN <<IntOf(p[1]), IntOf(p[2])>> ELSE NoMatch

\* "%d/%m/%Y"
TryDayFirst(s) ==
    LET p == SplitOn(s, "/")
    IN  IF /\ Len(p) = 3 /\ MatchD(p[1]) /\ MatchM(p[2]) /\ MatchY(p[3])
           /\ IntOf(p[1]) <= DaysInMonth(IntOf(p[3]), IntOf(p[2]))
        THEN <<IntOf(p[3]), IntOf(p[2])>> ELSE NoMatch

\* "%m/%d/%Y"
TryMonthFirst(s) ==
    LET p == SplitOn(s, "/")
    IN  IF /\ Len(p) = 3 /\ MatchM(p[1]) /\ MatchD(p[2]) /\ MatchY(p[3])
           /\ IntOf(p[2]) <= DaysInMonth(IntOf(p[3]), IntOf(p[1]))
        THEN <<IntOf(p[3]), IntOf(p[1])>> ELSE NoMatch

\* "%b %Y" and "%B %Y": a month name (any case), white space, a year
TryNameYear(s, names) ==
    LET p == SplitOn(s, " ")
        w == Lower(p[1])
    IN  IF /\ Len(p) >= 2 /\ MatchY(p[Len(p)])
           /\ \A i \in 2..(Len(p) - 1) : p[i] = <<>>
           /\ \E m \in 1..12 : names[m] = w
        THEN <<IntOf(p[Len(p)]), CHOOSE m \in 1..12 : names[m] = w>> ELSE NoMatch

\* Mutant of Attempts: "%m/%d/%Y" is tried before "%d/%m/%Y"
Attempts_monthFirst(s) ==
    << TryYearMonth(s, "-"), TryYearMonth(s, "/"), TryYearMonthDay(s),
       TryMonthFirst(s), TryDayFirst(s),
       TryNameYear(s, MonthAbbr), TryNameYear(s, MonthFull) >>

\* The seven strptime attempts of the loop, in its order
Attempts(s) ==
    << TryYearMonth(s, "-"), TryYearMonth(s, "/"), TryYearMonthDay(s),
       TryDayFirst(s), TryMonthFirst(s),
       TryNameYear(s, MonthAbbr), TryNameYear(s, MonthFull) >>

\* "HH:MM" or "HH:MM:SS" with fields in range
IsClockTime(s) ==
    LET p == SplitOn(s, ":")
    IN  /\ Len(p) \in {2, 3}
        /\ \A i \in 1..Len(p) : Len(p[i]) = 2 /\ AllDigits(p[i])
        /\ IntOf(p[1]) <= 23
        /\ \A i \in 2..Len(p) : IntOf(p[i]) <= 59

\* pd.to_datetime(s, errors="coerce") for a text that no strptime pattern
\* matched.  Covered: an ISO date followed by a clock time parses; a text
\* without that shape (no digits, or d/m/Y with day and month both out of
\* range) is NaT.
GenericParse(s) ==
    LET p == SplitOn(s, " ")
    IN  IF Len(p) = 2 /\ TryYearMonthDay(p[1]) # NoMatch /\ IsClockTime(p[2])
        THEN TryYearMonthDay(p[1]) ELSE NoMatch

\* A month input is a missing value, a timestamp or a text.
NullMonth == [kind |-> "null", y |-> 0, m |-> 0, s |-> <<>>]

Timestamp(y, m) == [kind |-> "ts", y |-> y, m |-> m, s |-> <<>>]

MonthText(s) == [kind |-> "text", y |-> 0, m |-> 0, s |-> s]

normalize_month(val) ==
    IF val.kind = "null" THEN NA
    ELSE IF val.kind = "ts" THEN FmtYm(val.y, val.m)
    ELSE LET s == Strip(val.s)
             a == Attempts(s)
         IN  IF \E i \in 1..Len(a) : a[i] # NoMatch
             THEN LET k == CHOOSE i \in 1..Len(a) :
                               a[i] # NoMatch /\ \A j \in 1..(i - 1) : a[j] = NoMatch
                  IN  FmtYm(a[k][1], a[k][2])
             ELSE LET g == GenericParse(s)
                  IN  IF g # NoMatch THEN FmtYm(g[1], g[2]) ELSE NA

\* ------------------------------------------------------------ the CSV store

Columns == {"referred_person", "referral_source", "month", "batch_id"}

\* A row of a frame, and of the file (there every cell is text)
Row(p, s, m, b) == [referred_person |-> p, referral_source |-> s, month |-> m, batch_id |-> b]

\* Texts pandas.read_csv turns into a missing value (its default na_values,
\* those the model's alphabet can spell)
NAValues == { <<>>, <<"N","A">>, <<"n","a","n">>, <<"N","a","N">>, <<"n","u","l","l">>,
              <<"N","U","L","L">>, <<"N","/","A">>, <<"n","/","a">> }

\* MASTER_PATH as it is on disk: whether the file exists, the columns its
\* header names (none: a file without a header line, which read_csv rejects
\* with EmptyDataError) and its data lines.  A cell of a column the header
\* does not name is kept empty and never read.
NoFile == [exists |-> FALSE, cols |-> {}, rows |-> <<>>]

CsvFile(cols, rows) == [exists |-> TRUE, cols |-> cols, rows |-> rows]

\* A cell as DataFrame.to_csv writes it: a missing value is the empty field
ToCsvCell(v) == IF IsNA(v) THEN <<>> ELSE v

\* A cell as read_csv reads it, before column type inference
FromCsvCell(t) == IF t \in NAValues THEN NA ELSE t

\* A text read_csv parses as a number: digits, or digits followed by ".0"
IsIntText(t) == t # <<>> /\ AllDigits(t)

IsFloatText(t) ==
    /\ Len(t) > 2 /\ t[Len(t) - 1] = "." /\ t[Len(t)] = "0"
    /\ \A i \in 1..(Len(t) - 2) : IsDigit(t[i])

\* The integer digits of a numeric text
NumKey(t) == IF IsFloatText(t) THEN SubSeq(t, 1, Len(t) - 2) ELSE t

\* How read_csv's type inference sees one cell
CellKind(v) ==
    IF IsNA(v) THEN "na" ELSE IF IsIntText(v) THEN "int" ELSE IF IsFloatText(v) THEN "float" ELSE "text"

\* read_csv's type inference on the batch_id column, the one column whose
\* cells are numeric text: all-integer cells stay integers (int64); with a
\* missing cell or a float among them the column is float64 and every number
\* prints with ".0"; with any other text the column keeps its texts.
InferBatchColumn(cells) ==
    LET kinds == [i \in 1..Len(cells) |-> CellKind(cells[i])]
        K     == {kinds[i] : i \in 1..Len(cells)}
        float == "text" \notin K /\ K \cap {"int", "float"} # {} /\ K \cap {"na", "float"} # {}
    IN  IF float
        THEN [i \in 1..Len(cells) |->
                IF kinds[i] = "int" THEN cells[i] \o <<".", "0">> ELSE cells[i]]
        ELSE cells

\* pd.read_csv(MASTER_PATH): ok is FALSE where it raises
read_csv(f) ==
    IF f.cols = {} THEN [ok |-> FALSE, cols |-> {}, rows |-> <<>>]
    ELSE LET cell(i, c) == IF c \in f.cols THEN FromCsvCell(f.rows[i][c]) ELSE NA
             batch == InferBatchColumn([i \in 1..Len(f.rows) |-> cell(i, "batch_id")])
         IN  [ok |-> TRUE, cols |-> f.cols,
              rows |-> [i \in 1..Len(f.rows) |->
                          Row(cell(i, "referred_person"), cell(i, "referral_source"),
                              cell(i, "month"), batch[i])]]

EmptyFrame == <<>>

\* Mutant of load_master: a file without a batch_id column is not loaded
load_master_strict(f) ==
    LET df == read_csv(f)
    IN  IF f.exists /\ df.ok /\ "batch_id" \in f.cols
        THEN [i \in 1..Len(df.rows) |->
                [df.rows[i] EXCEPT !.month = Slice7(AsStr(df.rows[i].month))]]
        ELSE EmptyFrame

\* A column missing from the file is added with missing values; the month is
\* coerced with astype(str).str.slice(0, 7)
load_master(f) ==
    LET df == read_csv(f)
    IN  IF f.exists /\ df.ok
        THEN [i \in 1..Len(df.rows) |->
                [df.rows[i] EXCEPT !.month = Slice7(AsStr(df.rows[i].month))]]
        ELSE EmptyFrame

\* df[cols].to_csv(MASTER_PATH, index=False), completed
save_master(df) ==
    CsvFile(Columns, [i \in 1..Len(df) |->
                        Row(ToCsvCell(df[i].referred_person), ToCsvCell(df[i].referral_source),
                            ToCsvCell(df[i].month), ToCsvCell(df[i].batch_id))])

\* --------------------------------------------------------------- sequences

RECURSIVE SelectIdx(_, _, _)
\* The elements of sequence s at the positions in keep, in order, from position i on
SelectIdx(s, keep, i) ==
    IF i > Len(s) THEN <<>>
    ELSE (IF i \in keep THEN <<s[i]>> ELSE <<>>) \o SelectIdx(s, keep, i + 1)

\* df[mask]: the rows at the positions where the mask holds
Keep(s, keep) == SelectIdx(s, keep, 1)

\* ------------------------------------------------------------------ state

VARIABLES
    store,   \* the file at MASTER_PATH
    now,     \* the wall clock, in seconds after 2025-08-01 12:00:00
    msg,     \* what the last script run reported (st.success / st.warning)
    prev,    \* the frame load_master() returned to the append of the last run
    sess,    \* per browser session: the script run it has in progress
    base,    \* the file as it was before any session's run began
    widgets  \* the input widgets: the uploaded sheet, and section 2's year,
             \* year-to-date and sorting controls

vars == <<store, now, msg, prev, sess, base, widgets>>

\* The widgets as the script creates them: no file uploaded, the latest year
\* preselected (no year picked yet), year-to-date ticked, "(Alphabetical)",
\* "Ascending" unticked
Alphabetical == <<"(", "A", "l", "p", "h", "a", "b", "e", "t", "i", "c", "a", "l", ")">>

DefaultWidgets ==
    [uploaded |-> <<>>, year_choice |-> NA, use_ytd |-> TRUE,
     sort_choice |-> Alphabetical, ascending |-> FALSE]

\* What a run reports: the message it shows with its numbers, the rows that
\* were ticked for deletion, and whether the run ended in an exception
NoMsg ==
    [kind |-> "none", rows |-> 0, after |-> 0, dropped |-> 0, batch_id |-> NA, deleted |-> 0,
     checked |-> {}, error |-> FALSE]

\* ------------------------------------------------------ row editor: filters

AllMonths == <<"(", "A", "l", "l", ")">>

\* sorted unique non-missing values of a column, as a set
months_all(master) == {master[i].month : i \in 1..Len(master)} \ {NA}

sources_all(master) == {master[i].referral_source : i \in 1..Len(master)} \ {NA}

\* The positions the three filters keep
mask(master, month_filter, source_filter, person_query) ==
    {i \in 1..Len(master) :
        /\ month_filter # AllMonths => master[i].month = month_filter
        /\ source_filter # {} => master[i].referral_source \in source_filter
        /\ Strip(person_query) # <<>> =>
              Contains(Lower(AsStr(master[i].referred_person)), Lower(Strip(person_query)))}

\* Whether the row editor section raises NameError in a run whose button
\* "Delete checked rows" is not clicked: with a row shown, line 430 reads
\* to_delete_idx, which only the button's branch assigns
RowEditorRaises(master, month_filter, source_filter, person_query) ==
    Len(master) > 0 /\ mask(master, month_filter, source_filter, person_query) # {}

\* ------------------------------------------------------------------ append

\* One row of the uploaded sheet after column mapping: the cells of the
\* columns chosen for the person, the source and the month
UploadRow(p, s, m) == [person |-> p, source |-> s, month |-> m]

\* df_new before filtering: person and source through astype(str).str.strip(),
\* the month either the picked month or normalize_month of the row's cell
BuildNew(data, fixed, chosen_month) ==
    [i \in 1..Len(data) |->
        Row(Strip(AsStr(data[i].person)), Strip(AsStr(data[i].source)),
            IF fixed THEN chosen_month ELSE normalize_month(data[i].month), NA)]

\* dropna(subset=["referral_source", "month"]) and then referral_source != ""
DropBad(df) ==
    Keep(df, {i \in 1..Len(df) :
                /\ ~IsNA(df[i].referral_source) /\ ~IsNA(df[i].month)
                /\ df[i].referral_source # <<>>})

\* datetime.now().strftime("%Y%m%d%H%M%S") at clock second t
NewBatchId(t) ==
    Fmt4(2025) \o Fmt2(8) \o Fmt2(1) \o Fmt2(12) \o Fmt2(t \div 60) \o Fmt2(t % 60)

\* df_new["batch_id"] = batch_id
Tag(df, batch_id) == [i \in 1..Len(df) |-> [df[i] EXCEPT !.batch_id = batch_id]]

\* Mutant of AppendFrame: the loaded rows are left out of the frame saved
AppendFrame_overwrite(master, df_new, batch_id) == Tag(df_new, batch_id)

\* pd.concat([master, df_new], ignore_index=True) with df_new tagged
AppendFrame(master, df_new, batch_id) == master \o Tag(df_new, batch_id)

\* f"{year_num}-{month_num:02d}"
ChosenMonth(ym) == Fmt4(ym[1]) \o <<"-">> \o Fmt2(ym[2])

\* Uploaded rows the model draws from: a complete row with padded texts and a
\* day-first date; a row whose person and source cells are missing; a row
\* whose source is blank and whose month is missing; a row whose source trims
\* to a text read_csv takes for a missing value and whose month text is no date
CompleteRow ==
    UploadRow(<<"P", " ">>, <<"A", " ">>, MonthText(<<"1","3","/","0","8","/","2","0","2","5">>))

SampleRows ==
    { CompleteRow,
      UploadRow(NA, NA, Timestamp(2024, 12)),
      UploadRow(<<"P", " ">>, <<" ">>, NullMonth),
      UploadRow(<<"q">>, <<" ", "N", "A">>, MonthText(<<"x">>)) }

RECURSIVE SeqsUpTo(_, _)
\* The sequences over S of length at most n
SeqsUpTo(S, n) ==
    IF n = 0 THEN {<<>>}
    ELSE LET shorter == SeqsUpTo(S, n - 1)
         IN  shorter \cup {Append(q, x) : q \in {r \in shorter : Len(r) = n - 1}, x \in S}

Uploads == SeqsUpTo(SampleRows, MaxUpload)

\* Months picked in the month and year dropdowns
PickedMonths == {<<2025, 8>>}

\* df_new of every upload the model draws, after "Drop blanks / bad"
Accepted == [data \in Uploads, fixed \in BOOLEAN, ym \in PickedMonths |->
                DropBad(BuildNew(data, fixed, ChosenMonth(ym)))]

\* The button "Append to Master".  After st.success the run goes on through
\* sections 2 and 3 (there is no st.stop()), the row editor's filters at their
\* defaults: they show every row, as many as the frame saved has.
AppendToMaster(data, fixed, ym, t) ==
    LET before   == Len(BuildNew(data, fixed, ChosenMonth(ym)))
        df_new   == IF data \in Uploads THEN Accepted[data, fixed, ym]
                    ELSE DropBad(BuildNew(data, fixed, ChosenMonth(ym)))
        after    == Len(df_new)
        batch_id == NewBatchId(t)
        master   == load_master(store)
        master2  == AppendFrame(master, df_new, batch_id)
    IN  /\ Len(master2) <= MaxRows
        /\ store' = save_master(master2)
        /\ msg' = [kind |-> "appended", rows |-> Len(data), after |-> after,
                   dropped |-> before - after, batch_id |-> batch_id, deleted |-> 0,
                   checked |-> {},
                   error |-> RowEditorRaises(master2, AllMonths, {}, <<>>)]
        /\ prev' = master
        /\ now' = t
        /\ UNCHANGED <<sess, base, widgets>>

\* ------------------------------------------------------------------ sidebar

\* list(agg.index): the distinct batch ids of the rows that carry one
batch_ids(master) == {master[i].batch_id : i \in {j \in 1..Len(master) : ~IsNA(master[j].batch_id)}}

\* Mutant of WithoutBatch: rows without a batch id are dropped with the batch
WithoutBatch_dropsUntagged(master, sel_id) ==
    Keep(master, {i \in 1..Len(master) :
                    ~IsNA(master[i].batch_id) /\ ~(master[i].batch_id = sel_id)})

\* master[~(master["batch_id"] == sel_id)]
WithoutBatch(master, sel_id) ==
    Keep(master, {i \in 1..Len(master) : ~(master[i].batch_id = sel_id)})

DeleteBatch(sel_id) ==
    LET master == load_master(store)
    IN  /\ sel_id \in batch_ids(master)
        /\ store' = save_master(WithoutBatch(master, sel_id))
        /\ msg' = [NoMsg EXCEPT !.kind = "deleted_batch", !.batch_id = sel_id]
        /\ prev' = EmptyFrame
        /\ UNCHANGED <<now, sess, base, widgets>>

ClearAll ==
    /\ store' = save_master(EmptyFrame)
    /\ msg' = [NoMsg EXCEPT !.kind = "cleared"]
    /\ prev' = EmptyFrame
    /\ UNCHANGED <<now, sess, base, widgets>>

\* --------------------------------------------------------------- row editor

\* Mutant of Drop: the ticked rows are taken by their position in the view, so
\* as many rows as were ticked go from the top of the ledger
Drop_viewPositions(master, to_delete_idx) ==
    Keep(master, (1..Len(master)) \ (1..Cardinality(to_delete_idx)))

\* master.drop(index=to_delete_idx, errors="ignore")
Drop(master, to_delete_idx) == Keep(master, (1..Len(master)) \ to_delete_idx)

\* The button "Delete checked rows" clicked with the rows at to_delete_idx ticked
DeleteRows(month_filter, source_filter, person_query, to_delete_idx) ==
    LET master == load_master(store)
        shown  == mask(master, month_filter, source_filter, person_query)
    IN  /\ Len(master) > 0
        /\ shown # {}
        /\ to_delete_idx \subseteq shown
        /\ IF to_delete_idx = {}
           THEN /\ msg' = [NoMsg EXCEPT !.kind = "none_checked"]
                /\ UNCHANGED store
           ELSE /\ store' = save_master(Drop(master, to_delete_idx))
                /\ msg' = [NoMsg EXCEPT !.kind = "deleted_rows",
                                        !.deleted = Cardinality(to_delete_idx),
                                        !.checked = to_delete_idx]
        /\ prev' = EmptyFrame
        /\ UNCHANGED <<now, sess, base, widgets>>

\* A script run in which no button is clicked, the row editor's filters as given
Rerun(month_filter, source_filter, person_query) ==
    /\ msg' = [NoMsg EXCEPT !.error = RowEditorRaises(load_master(store), month_filter,
                                                      source_filter, person_query)]
    /\ prev' = EmptyFrame
    /\ UNCHANGED <<store, now, sess, base, widgets>>

\* ------------------------------------------------------- explore & download

\* The characters of the model's texts in code-point order, the order Python
\* and pandas compare text by
CodePoints == <<" ", "(", ")", "-", ".", "/",
                "0", "1", "2", "3", "4", "5", "6", "7", "8", "9", ":", "<", ">",
                "A", "B", "C", "D", "E", "F", "G", "H", "I", "J", "K", "L", "M",
                "N", "O", "P", "Q", "R", "S", "T", "U", "V", "W", "X", "Y", "Z",
                "a", "b", "c", "d", "e", "f", "g", "h", "i", "j", "k", "l", "m",
                "n", "o", "p", "q", "r", "s", "t", "u", "v", "w", "x", "y", "z">>

ord(c) == CHOOSE i \in 1..Len(CodePoints) : CodePoints[i] = c

RECURSIVE TextLess(_, _)
\* a < b for two texts
TextLess(a, b) ==
    IF b = <<>> THEN FALSE
    ELSE IF a = <<>> THEN TRUE
    ELSE IF Head(a) = Head(b) THEN TextLess(Tail(a), Tail(b))
    ELSE ord(Head(a)) < ord(Head(b))

\* a sorts before b in an ascending sort with na_position="last"
KeyLess(a, b) ==
    IF IsNA(a) THEN FALSE ELSE IF IsNA(b) THEN TRUE ELSE TextLess(a, b)

RECURSIVE SortAsc(_)
\* The keys of S in ascending order, a missing key last
SortAsc(S) ==
    IF S = {} THEN <<>>
    ELSE LET least == CHOOSE x \in S : \A y \in S \ {x} : KeyLess(x, y)
         IN  <<least>> \o SortAsc(S \ {least})

RECURSIVE SortDesc(_)
\* The keys of S in descending order; a missing key is still last
SortDesc(S) ==
    IF S = {} THEN <<>>
    ELSE IF NA \in S THEN SortDesc(S \ {NA}) \o <<NA>>
    ELSE LET most == CHOOSE x \in S : \A y \in S \ {x} : KeyLess(y, x)
         IN  <<most>> \o SortDesc(S \ {most})

Range(s) == {s[i] : i \in 1..Len(s)}

\* sorted({str(m)[:4] for m in master_df["month"].dropna()})
list_years(master_df) ==
    SortAsc({SubSeq(master_df[i].month, 1, IF Len(master_df[i].month) < 4
                                           THEN Len(master_df[i].month) ELSE 4) :
                i \in {j \in 1..Len(master_df) : ~IsNA(master_df[j].month)}})

\* ['YYYY-01', ...] up to through_month, the full year when it is None (0 here:
\* "through_month or 12" takes 0 and None alike)
months_in_year(year, through_month) ==
    LET last == IF through_month = 0 THEN 12 ELSE through_month
    IN  [mm \in 1..last |-> year \o <<"-">> \o Fmt2(mm)]

\* s.startswith(prefix)
StartsWith(s, prefix) == Len(s) >= Len(prefix) /\ SubSeq(s, 1, Len(prefix)) = prefix

\* month.str[-2:]
Last2(m) == SubSeq(m, IF Len(m) < 2 THEN 1 ELSE Len(m) - 1, Len(m))

\* master[year_mask]
YearRows(master, year_choice) ==
    Keep(master, {i \in 1..Len(master) : StartsWith(master[i].month, year_choice)})

\* .str[-2:].astype(int) raises ValueError on a month that does not end in digits
MonthsAreNumbered(rows) ==
    \A i \in 1..Len(rows) : Last2(rows[i].month) # <<>> /\ AllDigits(Last2(rows[i].month))

\* Mutant of cutoff_month: year-to-date ends at the wall clock's month (August)
cutoff_month_clock(master, year_choice, use_ytd) == IF use_ytd THEN 8 ELSE 0

\* The largest month number among the year's rows when year-to-date is
\* ticked, None (0) otherwise
cutoff_month(master, year_choice, use_ytd) ==
    LET nums == {IntOf(Last2(r.month)) : r \in Range(YearRows(master, year_choice))}
    IN  IF ~use_ytd THEN 0
        ELSE IF nums = {} THEN 12
        ELSE CHOOSE n \in nums : \A k \in nums : k <= n

\* master_year: the year's rows, cut at the cutoff month under year-to-date
master_year(master, year_choice, use_ytd) ==
    LET rows == YearRows(master, year_choice)
        cut  == cutoff_month(master, year_choice, use_ytd)
    IN  IF use_ytd
        THEN Keep(rows, {i \in 1..Len(rows) : IntOf(Last2(rows[i].month)) <= cut})
        ELSE rows

\* A frame indexed by referral_source: its index in row order, its columns in
\* column order, and the cell of every index and column
Frame(index, columns, cell) == [index |-> index, columns |-> columns, cell |-> cell]

\* groupby(["referral_source", "month"], dropna=False).size() ... .pivot(...)
\* .fillna(0).astype(int).sort_index(): a row for every source of the rows (a
\* missing source keeps its row, last), a column for every month of the rows
GroupPivot(rows) ==
    LET srcs == {rows[i].referral_source : i \in 1..Len(rows)}
        mons == {rows[i].month : i \in 1..Len(rows)}
    IN  Frame(SortAsc(srcs), SortAsc(mons),
              [s \in srcs, m \in mons |->
                 Cardinality({i \in 1..Len(rows) :
                                 rows[i].referral_source = s /\ rows[i].month = m})])

\* Mutant of ZeroFill: a month without data is filled from the first month
\* that has data instead of with 0
ZeroFill_copiesFirst(p, full_months) ==
    Frame(p.index, full_months,
          [s \in Range(p.index), m \in Range(full_months) |->
             IF m \in Range(p.columns) THEN p.cell[s, m] ELSE p.cell[s, p.columns[1]]])

\* for m in full_months: if m not in pivot.columns: pivot[m] = 0; then
\* pivot = pivot[full_months]
ZeroFill(p, full_months) ==
    Frame(p.index, full_months,
          [s \in Range(p.index), m \in Range(full_months) |->
             IF m \in Range(p.columns) THEN p.cell[s, m] ELSE 0])

\* The orders a set of index labels can be put in
Orders(S) == {o \in [1..Cardinality(S) -> S] : Range(o) = S}

\* pivot.sort_index(ascending=ascending)
sort_index(p, ascending) ==
    Frame(IF ascending THEN SortAsc(Range(p.index)) ELSE SortDesc(Range(p.index)),
          p.columns, p.cell)

\* pivot.sort_values(by=sort_choice, ascending=ascending): the frames it can
\* return.  The sort is numpy's default "quicksort", which is not stable, so
\* rows with equal counts come out in an order the call does not determine.
sort_values(p, by, ascending) ==
    {Frame(o, p.columns, p.cell) : o \in
        {q \in Orders(Range(p.index)) :
            \A i \in 1..(Len(q) - 1) :
                IF ascending THEN p.cell[q[i], by] <= p.cell[q[i + 1], by]
                             ELSE p.cell[q[i], by] >= p.cell[q[i + 1], by]}}

RECURSIVE SumOver(_, _)
\* The sum of f over the elements of sequence s
SumOver(f, s) == IF s = <<>> THEN 0 ELSE f[Head(s)] + SumOver(f, Tail(s))

\* pivot_view.sum(axis=0)
totals(view) ==
    [m \in Range(view.columns) |-> SumOver([s \in Range(view.index) |-> view.cell[s, m]], view.index)]

\* Mutant of avg_per_source: the mean is taken over the months with activity
avg_per_source_activeMonths(p, full_months) ==
    [s \in Range(p.index) |->
        [sum   |-> SumOver([m \in Range(full_months) |-> p.cell[s, m]], full_months),
         count |-> Cardinality({m \in Range(full_months) : p.cell[s, m] > 0})]]

\* pivot[full_months].mean(axis=1): for every source the sum of its cells and
\* the number of cells the sum is divided by
avg_per_source(p, full_months) ==
    [s \in Range(p.index) |->
        [sum   |-> SumOver([m \in Range(full_months) |-> p.cell[s, m]], full_months),
         count |-> Len(full_months)]]

\* avg_per_source.sort_values("avg_referrals_per_month", ascending=False):
\* the index orders it can return (the means share one divisor)
avg_per_source_sorted(avg) ==
    {q \in Orders(DOMAIN avg) :
        \A i \in 1..(Len(q) - 1) : avg[q[i]].sum >= avg[q[i + 1]].sum}

\* Section 2 of a script run in which no button is clicked, with the year and
\* the sorting widgets as they stand; the unstable sort of the pivot returns
\* one of the orders it can return, and of the averages table the orders it
\* can come out in are kept; the row editor's filters are at their defaults
Explore ==
    LET master == load_master(store)
        years  == list_years(master)
        year_choice == IF IsNA(widgets.year_choice) THEN years[Len(years)]
                       ELSE widgets.year_choice
        use_ytd == widgets.use_ytd
        rows   == master_year(master, year_choice, use_ytd)
        full_months == months_in_year(year_choice, cutoff_month(master, year_choice, use_ytd))
        pivot  == ZeroFill(GroupPivot(rows), full_months)
        avg    == avg_per_source(pivot, full_months)
    IN  /\ Len(master) > 0
        /\ year_choice \in Range(years)
        /\ MonthsAreNumbered(YearRows(master, year_choice))
        /\ Len(rows) > 0
        /\ widgets.sort_choice \in {Alphabetical} \cup Range(pivot.columns)
        /\ \E view \in (IF widgets.sort_choice = Alphabetical
                        THEN {sort_index(pivot, widgets.ascending)}
                        ELSE sort_values(pivot, widgets.sort_choice, widgets.ascending)) :
                msg' = [kind |-> "explored", year_choice |-> year_choice,
                        master_year |-> rows, full_months |-> full_months,
                        pivot |-> pivot, pivot_view |-> view, totals |-> totals(view),
                        avg_per_source |-> avg,
                        avg_per_source_sorted |-> avg_per_source_sorted(avg),
                        error |-> RowEditorRaises(master, AllMonths, {}, <<>>)]
        /\ prev' = EmptyFrame
        /\ UNCHANGED <<store, now, sess, base, widgets>>

\* ---------------------------------------------------- sidebar: batch registry

\* sorted(pd.Series(s).dropna().unique())[:6]: the first six months of a batch
batch_months(rows) ==
    LET ms == SortAsc({rows[i].month : i \in 1..Len(rows)} \ {NA})
    IN  SubSeq(ms, 1, IF Len(ms) < 6 THEN Len(ms) ELSE 6)

\* Mutant of agg: the registry is listed in ascending batch-id order
agg_ascending(master) ==
    LET batches == Keep(master, {i \in 1..Len(master) : ~IsNA(master[i].batch_id)})
        ids     == SortAsc({batches[i].batch_id : i \in 1..Len(batches)})
    IN  [k \in 1..Len(ids) |->
            LET of == Keep(batches, {i \in 1..Len(batches) : batches[i].batch_id = ids[k]})
            IN  [batch_id |-> ids[k], rows |-> Len(of), months |-> batch_months(of)]]

\* batches.groupby("batch_id").agg(rows=..., months=...).sort_index(ascending=False)
\* over batches = master.dropna(subset=["batch_id"]).  The ids of one column
\* are numbers of one width, which text order and number order sort alike.
agg(master) ==
    LET batches == Keep(master, {i \in 1..Len(master) : ~IsNA(master[i].batch_id)})
        ids     == SortDesc({batches[i].batch_id : i \in 1..Len(batches)})
    IN  [k \in 1..Len(ids) |->
            LET of == Keep(batches, {i \in 1..Len(batches) : batches[i].batch_id = ids[k]})
            IN  [batch_id |-> ids[k], rows |-> Len(of), months |-> batch_months(of)]]

\* ------------------------------------------------------------ specification

\* Person queries typed into the row editor's filter
PersonQueries == {<<>>, <<"p">>}

\* ------------------------------------------------- sessions of one process

\* Streamlit runs each browser session's script in a thread of its own; the
\* script takes no lock around load_master() ... save_master().
Sessions == {1, 2}

\* A session's run: where it is (idle; loaded: its handler has loaded the
\* ledger and built the frame to save; writing: to_csv has opened the file;
\* done: the handler reported success; failed: to_csv raised), what the
\* handler is and was given (the accepted rows and the batch id of an append,
\* the batch or the row positions of a delete), the frame load_master()
\* returned, the frame it
\* saves, how much of it has reached the file (0: nothing; j: the header and
\* j - 1 rows) and the file as it was when to_csv opened it
IdleSession ==
    [pc |-> "idle", kind |-> "none", newrows |-> <<>>, batch_id |-> NA, sel_id |-> NA, idx |-> {},
     loaded |-> EmptyFrame, frame |-> EmptyFrame, flushed |-> 0, pre |-> NoFile]

\* The frame a handler saves, given the frame it loaded
Effect(r, master) ==
    IF r.kind = "append" THEN AppendFrame(master, r.newrows, r.batch_id)
    ELSE IF r.kind = "delete_batch" THEN WithoutBatch(master, r.sel_id)
    ELSE IF r.kind = "delete_rows" THEN Drop(master, r.idx)
    ELSE master

\* Append to Master up to the point where save_master is called
BeginAppend(s, data, fixed, ym, t) ==
    LET master == load_master(store)
        r == [IdleSession EXCEPT !.kind = "append",
                                 !.newrows = Accepted[data, fixed, ym],
                                 !.batch_id = NewBatchId(t),
                                 !.loaded = master]
    IN  /\ sess[s].pc = "idle"
        /\ Len(Effect(r, master)) <= MaxRows
        /\ sess' = [sess EXCEPT ![s] = [r EXCEPT !.pc = "loaded", !.frame = Effect(r, master)]]
        /\ now' = t
        /\ UNCHANGED <<store, msg, prev, base, widgets>>

\* Delete selected batch up to the point where save_master is called
BeginDeleteBatch(s, sel_id) ==
    LET master == load_master(store)
        r == [IdleSession EXCEPT !.kind = "delete_batch", !.sel_id = sel_id, !.loaded = master]
    IN  /\ sess[s].pc = "idle"
        /\ sel_id \in batch_ids(master)
        /\ sess' = [sess EXCEPT ![s] = [r EXCEPT !.pc = "loaded", !.frame = Effect(r, master)]]
        /\ UNCHANGED <<store, now, msg, prev, base, widgets>>

\* Delete checked rows (no filter set) up to the point where save_master is called
BeginDeleteRows(s, to_delete_idx) ==
    LET master == load_master(store)
        r == [IdleSession EXCEPT !.kind = "delete_rows", !.idx = to_delete_idx, !.loaded = master]
    IN  /\ sess[s].pc = "idle"
        /\ to_delete_idx # {}
        /\ to_delete_idx \subseteq mask(master, AllMonths, {}, <<>>)
        /\ sess' = [sess EXCEPT ![s] = [r EXCEPT !.pc = "loaded", !.frame = Effect(r, master)]]
        /\ UNCHANGED <<store, now, msg, prev, base, widgets>>

\* The file while to_csv has flushed the header and the first j - 1 rows of df
PartialFile(df, j) ==
    IF j = 0 THEN CsvFile({}, <<>>)
    ELSE CsvFile(Columns, SubSeq(save_master(df).rows, 1, j - 1))

\* to_csv opens MASTER_PATH for writing, which truncates it.  Two sessions
\* writing the file at once are left out: the model does not describe the
\* byte-level mixture of their writes.
SaveOpen(s) ==
    /\ sess[s].pc = "loaded"
    /\ \A o \in Sessions : sess[o].pc # "writing"
    /\ store' = PartialFile(sess[s].frame, 0)
    /\ sess' = [sess EXCEPT ![s].pc = "writing", ![s].flushed = 0, ![s].pre = store]
    /\ UNCHANGED <<now, msg, prev, base, widgets>>

\* to_csv's buffer reaches the file: the header (first) or one more row
SaveFlush(s) ==
    /\ sess[s].pc = "writing"
    /\ sess[s].flushed <= Len(sess[s].frame)
    /\ store' = PartialFile(sess[s].frame, sess[s].flushed + 1)
    /\ sess' = [sess EXCEPT ![s].flushed = @ + 1]
    /\ UNCHANGED <<now, msg, prev, base, widgets>>

\* to_csv returns and the handler reports success
SaveClose(s) ==
    /\ sess[s].pc = "writing"
    /\ sess[s].flushed = Len(sess[s].frame) + 1
    /\ sess' = [sess EXCEPT ![s].pc = "done"]
    /\ UNCHANGED <<store, now, msg, prev, base, widgets>>

\* to_csv raises OSError: at the open (the file is untouched) or at a later
\* write (the file keeps what had been flushed); st.success is not reached
SaveFail(s) ==
    /\ sess[s].pc \in {"loaded", "writing"}
    /\ sess' = [sess EXCEPT ![s].pc = "failed"]
    /\ UNCHANGED <<store, now, msg, prev, base, widgets>>

\* A file written before batch ids existed: no batch_id column, a full date
\* in the month column
LegacyFile ==
    CsvFile(Columns \ {"batch_id"},
            << Row(<<"q">>, <<"A">>, <<"2","0","2","4","-","1","2","-","0","1">>, <<>>) >>)

\* An existing file without a header line (zero bytes)
EmptyFile == CsvFile({}, <<>>)

Init ==
    /\ store \in {NoFile, EmptyFile, LegacyFile}
    /\ now = 0
    /\ msg = NoMsg
    /\ prev = EmptyFrame
    /\ sess = [s \in Sessions |-> IdleSession]
    /\ base = NoFile
    /\ widgets = DefaultWidgets

Next ==
    \/ \E data \in Uploads, fixed \in BOOLEAN, ym \in PickedMonths, t \in now..(now + 1) :
          t <= MaxClock /\ AppendToMaster(data, fixed, ym, t)
    \/ \E sel_id \in batch_ids(load_master(store)) : DeleteBatch(sel_id)
    \/ ClearAll
    \/ \E month_filter \in {AllMonths} \cup months_all(load_master(store)),
          source_filter \in {{}} \cup {{x} : x \in sources_all(load_master(store))},
          person_query \in PersonQueries,
          to_delete_idx \in SUBSET (1..Len(load_master(store))) :
          DeleteRows(month_filter, source_filter, person_query, to_delete_idx)
    \/ \E month_filter \in {AllMonths} \cup months_all(load_master(store)),
          source_filter \in {{}} \cup {{x} : x \in sources_all(load_master(store))},
          person_query \in PersonQueries :
          Rerun(month_filter, source_filter, person_query)

Spec == Init /\ [][Next]_vars

\* The files the concurrent runs start from: no file, and the file after one
\* and after two uploads of the complete sample row
FileAfter(f, t) ==
    save_master(AppendFrame(load_master(f), Accepted[<<CompleteRow>>, FALSE, <<2025, 8>>], NewBatchId(t)))

InitIO ==
    /\ store \in {NoFile, FileAfter(NoFile, 0), FileAfter(FileAfter(NoFile, 0), 1)}
    /\ now = 1
    /\ msg = NoMsg
    /\ prev = EmptyFrame
    /\ sess = [s \in Sessions |-> IdleSession]
    /\ base = store
    /\ widgets = DefaultWidgets

NextIO ==
    \/ \E s \in Sessions, data \in SeqsUpTo(SampleRows, 1), fixed \in BOOLEAN,
          ym \in PickedMonths, t \in now..(now + 1) :
          t <= MaxClock /\ BeginAppend(s, data, fixed, ym, t)
    \/ \E s \in Sessions, sel_id \in batch_ids(load_master(store)) : BeginDeleteBatch(s, sel_id)
    \/ \E s \in Sessions, to_delete_idx \in SUBSET (1..Len(load_master(store))) :
          BeginDeleteRows(s, to_delete_idx)
    \/ \E s \in Sessions : SaveOpen(s)
    \/ \E s \in Sessions : SaveFlush(s)
    \/ \E s \in Sessions : SaveClose(s)
    \/ \E s \in Sessions : SaveFail(s)

SpecIO == InitIO /\ [][NextIO]_vars

\* An upload onto a fresh deployment: no file at MASTER_PATH yet
InitFresh ==
    /\ store = NoFile
    /\ now = 0
    /\ msg = NoMsg
    /\ prev = EmptyFrame
    /\ sess = [s \in Sessions |-> IdleSession]
    /\ base = NoFile
    /\ widgets = DefaultWidgets

SpecFresh == InitFresh /\ [][Next]_vars

\* ----------------------------------------------- exploring a given ledger

\* Records a ledger holds after appends: two sources and one whose text the
\* file gives back as a missing value, months of two years, one batch id
ExploreMonths == {<<2024, 12>>, <<2025, 1>>, <<2025, 3>>}

\* The records a month's upload can bring, in the order of the months
ExploreRecords ==
    LET months  == <<<<2024, 12>>, <<2025, 1>>, <<2025, 3>>>>
        sources == <<<<"A">>, <<"B">>, <<"N", "A">>>>
    IN  [k \in 1..(Len(months) * Len(sources)) |->
            Row(<<"P">>, sources[((k - 1) % Len(sources)) + 1],
                ChosenMonth(months[((k - 1) \div Len(sources)) + 1]), NewBatchId(0))]

\* Ledgers of up to n such records, uploaded month after month
ExploreLedgers(n) ==
    UNION {{[i \in 1..len |-> ExploreRecords[f[i]]] :
              f \in {g \in [1..len -> DOMAIN ExploreRecords] :
                        \A i \in 1..(len - 1) : g[i] <= g[i + 1]}} : len \in 0..n}

\* Values the year and sorting widgets can be left at
ExploreYears == {NA} \cup {Fmt4(ym[1]) : ym \in ExploreMonths}

SortChoices ==
    {Alphabetical} \cup {ChosenMonth(ym) : ym \in {<<2025, 1>>, <<2025, 2>>, <<2024, 12>>}}

\* The store holds a ledger of up to MaxRows such records, the widgets stand
\* at any of their values, the clock at any second
InitExplore ==
    /\ store \in {save_master(df) : df \in ExploreLedgers(MaxRows)}
    /\ now \in 0..MaxClock
    /\ msg = NoMsg
    /\ prev = EmptyFrame
    /\ sess = [s \in Sessions |-> IdleSession]
    /\ base = NoFile
    /\ widgets \in [uploaded : {<<>>}, year_choice : ExploreYears, use_ytd : BOOLEAN,
                    sort_choice : SortChoices, ascending : BOOLEAN]

NextExplore == Explore

SpecExplore == InitExplore /\ [][NextExplore]_vars

\* ------------------------------------------ uploads with a month column

\* Day and month fields of slash-separated dates: with and without a leading
\* zero, in and out of the range of months, at and past the ends of months
SlashFields ==
    { <<"0">>, <<"1">>, <<"0", "1">>, <<"2">>, <<"0", "2">>, <<"4">>, <<"0", "4">>,
      <<"1", "2">>, <<"1", "3">>, <<"2", "9">>, <<"3", "0">>, <<"3", "1">>, <<"3", "2">> }

\* A leap year and a common year
SlashYears == { <<"2", "0", "2", "4">>, <<"2", "0", "2", "5">> }

SlashTexts == {a \o <<"/">> \o b \o <<"/">> \o y : a \in SlashFields, b \in SlashFields, y \in SlashYears}

\* A sheet of one row is uploaded whose month column holds such a text; there
\* is no file at MASTER_PATH yet
InitNormalize ==
    /\ store = NoFile
    /\ now = 0
    /\ msg = NoMsg
    /\ prev = EmptyFrame
    /\ sess = [s \in Sessions |-> IdleSession]
    /\ base = NoFile
    /\ widgets \in {[DefaultWidgets EXCEPT !.uploaded = <<UploadRow(<<"P">>, <<"A">>, MonthText(text))>>] :
                      text \in SlashTexts}

\* "Append to Master" with the month taken from the sheet's month column
NextNormalize ==
    \E ym \in PickedMonths, t \in now..(now + 1) :
        /\ t <= MaxClock
        /\ widgets.uploaded # <<>>
        /\ AppendToMaster(widgets.uploaded, FALSE, ym, t)

SpecNormalize == InitNormalize /\ [][NextNormalize]_vars

\* ------------------------------------------------------------------ claims

\* The ledger: what load_master() returns for the file as it is
Ledger == load_master(store)

\* C1: after an append of msg.rows input rows onto a ledger of k rows,
\* accepted + rejected is the number of input rows, the ledger holds
\* k + accepted rows, its first k rows are the prior rows unchanged, and the
\* rows added all carry one batch id, the one reported.
C1_AppendCounts ==
    msg.kind = "appended" =>
        LET k == Len(prev)
        IN  /\ msg.after + msg.dropped = msg.rows
            /\ Len(Ledger) = k + msg.after
            /\ \A i \in 1..k : Ledger[i] = prev[i]
            /\ \A i \in (k + 1)..Len(Ledger) :
                  /\ ~IsNA(Ledger[i].batch_id)
                  /\ NumKey(Ledger[i].batch_id) = msg.batch_id
                  /\ Ledger[i].batch_id = Ledger[k + 1].batch_id

\* C1 witness: an upload of two rows, one accepted and one rejected, onto a
\* ledger that already held rows
C1_Witness ==
    /\ msg.kind = "appended" /\ msg.rows = 2 /\ msg.after = 1 /\ msg.dropped = 1
    /\ Len(prev) >= 1 /\ Len(Ledger) = Len(prev) + 1

\* An input row the specification says append must reject
MustReject(row, fixed) ==
    \/ IsNA(row.source)
    \/ Strip(AsStr(row.source)) = <<>>
    \/ ~fixed /\ IsNA(normalize_month(row.month))

\* C2: every input row whose source is missing or blank, or whose month does
\* not resolve, is counted as rejected and is not stored: the rejected count
\* is at least the number of such rows, and the ledger grows by no more than
\* the number of the other rows.
C2_BadRowsRejected ==
    [][\A data \in Uploads, fixed \in BOOLEAN, ym \in PickedMonths, t \in now..(now + 1) :
          AppendToMaster(data, fixed, ym, t) =>
             LET bad == Cardinality({i \in 1..Len(data) : MustReject(data[i], fixed)})
             IN  /\ msg'.dropped >= bad
                 /\ Len(load_master(store')) <= Len(load_master(store)) + Len(data) - bad]_vars

\* "YYYY-MM" with a month number 01..12
IsMonthKey(m) ==
    /\ Len(m) = 7 /\ m[5] = "-"
    /\ \A i \in {1, 2, 3, 4, 6, 7} : IsDigit(m[i])
    /\ IntOf(SubSeq(m, 6, 7)) \in 1..12

\* C3: starting from no file, every record of the ledger has a referral
\* source that is present and not empty, and a month of the form YYYY-MM.
C3_RecordsValid ==
    \A i \in 1..Len(Ledger) :
        /\ ~IsNA(Ledger[i].referral_source)
        /\ Ledger[i].referral_source # <<>>
        /\ IsMonthKey(Ledger[i].month)

\* C4: deleting batch b leaves exactly the rows whose batch id is not b (those
\* without a batch id included), unchanged and in order, and the row count
\* falls by the number of rows that carried b.
C4_DeleteBatchExact ==
    [][msg'.kind = "deleted_batch" =>
          LET b     == msg'.batch_id
              L     == load_master(store)
              after == load_master(store')
              hit   == {i \in 1..Len(L) : ~IsNA(L[i].batch_id) /\ L[i].batch_id = b}
          IN  /\ hit # {}
              /\ after = Keep(L, (1..Len(L)) \ hit)
              /\ Len(after) = Len(L) - Cardinality(hit)]_vars

\* C4 witness: a batch has been deleted and the ledger still holds a row of
\* another batch and a row without a batch id
C4_Witness ==
    /\ msg.kind = "deleted_batch"
    /\ \E i \in 1..Len(Ledger) : IsNA(Ledger[i].batch_id)
    /\ \E i \in 1..Len(Ledger) : ~IsNA(Ledger[i].batch_id)

\* C5: the batch id an append assigns to its rows differs from the batch id
\* of every row an earlier append put in the ledger.
C5_BatchIdFresh ==
    (msg.kind = "appended" /\ msg.after >= 1) =>
        \A i \in 1..Len(prev) :
            IsNA(prev[i].batch_id) \/ NumKey(prev[i].batch_id) # msg.batch_id

\* C6: an append that stores rows and reports batch id b, followed by the
\* deletion of batch b, gives back the ledger as it was before the append.
C6_AppendThenDeleteRestores ==
    [][(/\ msg.kind = "appended" /\ msg.after >= 1
        /\ msg'.kind = "deleted_batch"
        /\ NumKey(msg'.batch_id) = msg.batch_id) => load_master(store') = prev]_vars

\* C10: load_master returns the empty frame for a missing file and for a file
\* read_csv rejects; for a file without a batch_id column it returns every
\* row of the file with a missing batch id; every row it returns has the four
\* columns; and a run that only loads leaves the file as it was.
C10_LoadDegrades ==
    [][/\ (~store.exists \/ store.cols = {}) => Ledger = EmptyFrame
       /\ (store.exists /\ store.cols # {} /\ "batch_id" \notin store.cols) =>
             /\ Len(Ledger) = Len(store.rows)
             /\ \A i \in 1..Len(Ledger) : IsNA(Ledger[i].batch_id)
       /\ \A i \in 1..Len(Ledger) : DOMAIN Ledger[i] = Columns
       /\ msg'.kind = "none" => store' = store]_vars

\* C10 witness: an append's load_master() was given a file without a batch_id
\* column and returned its row, with a missing batch id and the month cut to
\* seven characters
C10_Witness ==
    /\ msg.kind = "appended"
    /\ Len(prev) = 1 /\ IsNA(prev[1].batch_id)
    /\ prev[1].month = <<"2","0","2","4","-","1","2">>
    /\ Len(Ledger) = 1 + msg.after

\* The file after handler r has run alone, from load to completed save, on file f
RunAlone(r, f) == save_master(Effect(r, load_master(f)))

\* Pairs of handlers whose serial outcomes do not depend on how row positions
\* are carried from one ledger to another
PositionFree(r1, r2) ==
    ~(r1.kind = "delete_rows" /\ r2.kind # "append") /\ ~(r2.kind = "delete_rows" /\ r1.kind # "append")

\* C7: when the save of a session's handler has failed, and no other session
\* has run, the file still loads to the ledger the handler loaded.
C7_FailedSaveKeepsStore ==
    \A s \in Sessions :
        (sess[s].pc = "failed" /\ \A o \in Sessions \ {s} : sess[o].pc = "idle")
            => load_master(store) = sess[s].loaded

\* C8: when both sessions' handlers have reported success, the ledger is the
\* one that running the two handlers one after the other, in one of the two
\* orders, gives.
C8_Serializable ==
    (/\ \A s \in Sessions : sess[s].pc = "done"
     /\ PositionFree(sess[1], sess[2]))
        => load_master(store) \in { load_master(RunAlone(sess[2], RunAlone(sess[1], base))),
                                    load_master(RunAlone(sess[1], RunAlone(sess[2], base))) }

\* C9: a load made while another session's save is in progress returns the
\* ledger of the file as it was before that save, or the ledger that save
\* writes.
C9_LoadSeesWholeLedger ==
    [][\A s \in Sessions, w \in Sessions :
          (/\ s # w /\ sess[w].pc = "writing"
           /\ sess[s].pc = "idle" /\ sess'[s].pc = "loaded")
             => sess'[s].loaded \in { load_master(sess[w].pre),
                                      load_master(save_master(sess[w].frame)) }]_vars

\* ------------------------------------------------ claims about the pivot

\* The months Y-01 .. Y-n of year text y
WindowOf(y, n) == [k \in 1..n |-> y \o <<"-">> \o Fmt2(k)]

\* The number of records of rows with source s and month m
CountOf(rows, s, m) ==
    Cardinality({i \in 1..Len(rows) : rows[i].referral_source = s /\ rows[i].month = m})

\* C11: the pivot of a non-empty set of records in the window has exactly one
\* row for every distinct referral_source of the set, exactly one column for
\* every month from January to the window end in chronological order, and
\* every cell is the number of records with that source and month, 0 when
\* there are none; the displayed view has the same rows, columns and cells.
C11_PivotZeroFill ==
    msg.kind = "explored" =>
        LET rows == msg.master_year
            srcs == {rows[i].referral_source : i \in 1..Len(rows)}
        IN  \A p \in {msg.pivot, msg.pivot_view} :
              /\ Range(p.index) = srcs
              /\ Len(p.index) = Cardinality(srcs)
              /\ p.columns = WindowOf(msg.year_choice, Len(p.columns))
              /\ p.columns = msg.full_months
              /\ \A i \in 1..Len(rows) : rows[i].month \in Range(p.columns)
              /\ \A s \in srcs, m \in Range(p.columns) : p.cell[s, m] = CountOf(rows, s, m)

\* A pivot with two sources, a cell of 2 and a cell of 0 in a month before
\* the source's first record
C11_Witness ==
    /\ msg.kind = "explored"
    /\ Len(msg.pivot.index) >= 2
    /\ \E s \in Range(msg.pivot.index) :
          /\ msg.pivot.cell[s, msg.pivot.columns[1]] = 0
          /\ \E k \in 2..Len(msg.pivot.columns) : msg.pivot.cell[s, msg.pivot.columns[k]] = 2

\* C12: with year-to-date ticked for year Y the window is Y-01 through the
\* largest month a ledger record of year Y carries, whatever the clock shows;
\* without it the window is Y-01 through Y-12.
C12_YtdWindow ==
    msg.kind = "explored" =>
        LET y      == msg.year_choice
            ofYear == {Ledger[i].month : i \in {j \in 1..Len(Ledger) : StartsWith(Ledger[j].month, y)}}
            latest == CHOOSE m \in ofYear : \A k \in ofYear : ~TextLess(m, k)
        IN  /\ msg.full_months[1] = y \o <<"-", "0", "1">>
            /\ msg.full_months = WindowOf(y, Len(msg.full_months))
            /\ msg.full_months[Len(msg.full_months)] =
                  (IF widgets.use_ytd THEN latest ELSE y \o <<"-", "1", "2">>)

\* A year-to-date window that ends in March while the clock stands in August
C12_Witness ==
    /\ msg.kind = "explored" /\ widgets.use_ytd
    /\ msg.year_choice = <<"2", "0", "2", "5">>
    /\ Len(msg.full_months) = 3
    /\ SubSeq(NewBatchId(now), 5, 6) = <<"0", "8">>

C14_SortByMonthTies ==
    (msg.kind = "explored" /\ widgets.sort_choice # Alphabetical) =>
        LET v  == msg.pivot_view
            by == widgets.sort_choice
        IN  \A i \in 1..Len(v.index), j \in 1..Len(v.index) :
              i < j =>
                /\ IF widgets.ascending THEN v.cell[v.index[i], by] <= v.cell[v.index[j], by]
                                        ELSE v.cell[v.index[i], by] >= v.cell[v.index[j], by]
                /\ v.cell[v.index[i], by] = v.cell[v.index[j], by]
                      => KeyLess(v.index[i], v.index[j])

\* C15: with the sorting widgets at their defaults the view's rows are in
\* ascending referral_source order.
C15_DefaultOrderAscending ==
    (msg.kind = "explored" /\ widgets.sort_choice = DefaultWidgets.sort_choice
                           /\ widgets.ascending = DefaultWidgets.ascending) =>
        \A i \in 1..Len(msg.pivot_view.index), j \in 1..Len(msg.pivot_view.index) :
            i < j => KeyLess(msg.pivot_view.index[i], msg.pivot_view.index[j])

\* ------------------------------------- claims about registry and row editor

\* C16: the batch registry lists exactly the distinct non-null batch ids of
\* the ledger, in descending order, each with the number of ledger rows that
\* carry it; rows without a batch id are in no entry, and each of them is
\* among the rows the row editor shows and is gone once it is dropped there.
C16_BatchRegistry ==
    LET reg     == agg(Ledger)
        tagged  == {i \in 1..Len(Ledger) : ~IsNA(Ledger[i].batch_id)}
    IN  /\ {reg[k].batch_id : k \in 1..Len(reg)} = {Ledger[i].batch_id : i \in tagged}
        /\ \A j \in 1..Len(reg), k \in 1..Len(reg) :
              j < k => TextLess(reg[k].batch_id, reg[j].batch_id)
        /\ \A k \in 1..Len(reg) :
              reg[k].rows = Cardinality({i \in 1..Len(Ledger) : Ledger[i].batch_id = reg[k].batch_id})
        /\ SumOver([k \in 1..Len(reg) |-> reg[k].rows], [k \in 1..Len(reg) |-> k])
              = Cardinality(tagged)
        /\ \A i \in (1..Len(Ledger)) \ tagged :
              /\ i \in mask(Ledger, AllMonths, {}, <<>>)
              /\ Len(load_master(save_master(Drop(Ledger, {i})))) = Len(Ledger) - 1

\* A ledger with a row without batch id and two batches in the registry
C16_Witness ==
    /\ Len(agg(Ledger)) = 2
    /\ \E i \in 1..Len(Ledger) : IsNA(Ledger[i].batch_id)
    /\ agg(Ledger)[1].rows + agg(Ledger)[2].rows = Len(Ledger) - 1

\* C18: a row delete removes exactly the rows that were ticked: every other
\* row of the ledger, shown by the filters or not, stays as it was and in
\* order, and the row count falls by exactly the number the run reports; with
\* nothing ticked the store is left alone.
C18_DeleteRowsExact ==
    [][(msg'.kind = "deleted_rows" =>
          LET idx   == msg'.checked
              after == load_master(store')
          IN  /\ idx # {} /\ idx \subseteq 1..Len(Ledger)
              /\ msg'.deleted = Cardinality(idx)
              /\ Len(after) = Len(Ledger) - msg'.deleted
              /\ \A i \in (1..Len(Ledger)) \ idx :
                    after[i - Cardinality({j \in idx : j < i})] = Ledger[i])
       /\ (msg'.kind = "none_checked" => store' = store)]_vars

\* A delete of the second of three rows: the first and the third remain
C18_Witness ==
    /\ msg.kind = "deleted_rows"
    /\ msg.checked = {2}
    /\ Len(Ledger) = 2
    /\ Ledger[1] # Ledger[2]

\* C19: a run in which no button is clicked ends without an exception and
\* leaves the store as it was, also when the row editor has rows to show.
C19_RerunCompletes ==
    [][msg'.kind = "none" => (~msg'.error /\ store' = store)]_vars

\* ------------------------------------------------ claims about normalize

\* C17: for a text a/b/YYYY in the month column, the month stored is YYYY-b
\* when a is a day of month b, else YYYY-a when a is a month and b a day of it,
\* and the row is rejected otherwise; every append of the same text, at
\* whatever time, stores the same month.
C17_SlashDateOrder ==
    (msg.kind = "appended" /\ widgets.uploaded # <<>>) =>
        LET p == SplitOn(widgets.uploaded[1].month.s, "/")
            a == IntOf(p[1])
            b == IntOf(p[2])
            y == IntOf(p[3])
            expected ==
                IF b \in 1..12 /\ a >= 1 /\ a <= DaysInMonth(y, b) THEN p[3] \o <<"-">> \o Fmt2(b)
                ELSE IF a \in 1..12 /\ b >= 1 /\ b <= DaysInMonth(y, a) THEN p[3] \o <<"-">> \o Fmt2(a)
                ELSE NA
        IN  IF IsNA(expected)
            THEN msg.after = 0 /\ msg.dropped = 1 /\ Len(Ledger) = 0
            ELSE /\ msg.after = 1 /\ msg.dropped = 0 /\ Len(Ledger) >= 1
                 /\ \A i \in 1..Len(Ledger) : Ledger[i].month = expected

\* "02/29/2024": no month 29, so the month-first pattern gives February 2024,
\* stored by two appends
C17_Witness ==
    /\ msg.kind = "appended"
    /\ widgets.uploaded # <<>>
    /\ widgets.uploaded[1].month.s = <<"0", "2", "/", "2", "9", "/", "2", "0", "2", "4">>
    /\ Len(Ledger) = 2
    /\ Ledger[2].month = <<"2", "0", "2", "4", "-", "0", "2">>

====
